---- MODULE Spec2Model ----
(***************************************************************************)
(* A model of the Claude-to-Speech audio pipeline.                         *)
(*                                                                         *)
(* Part I  : AudioManager (src/audio_manager_plugin.py): the playback      *)
(*           queue, its asyncio processing loop(s) and play_audio.         *)
(* Part II : SimplifiedTTSProcessor.process_chunk                          *)
(*           (src/server/smart_streaming_processor.py): the draft/final    *)
(*           reconciliation.                                               *)
(*                                                                         *)
(* Scheduling model of Part I.  The code runs on one asyncio event loop,   *)
(* so every action below is the code between two points where a coroutine  *)
(* really suspends.  state_lock is only ever held across code without an   *)
(* await, so acquiring it never suspends and it does not appear as state.  *)
(* put() on the unbounded asyncio.Queue never suspends.  A get() on a      *)
(* non-empty queue followed by play_audio runs up to the first suspension  *)
(* inside play_audio (the playback_lock when it is taken, otherwise the    *)
(* subprocess spawn) in one step.                                          *)
(***************************************************************************)
EXTENDS Naturals, Integers, Sequences, FiniteSets, TLC

\* ---------------------------------------------------------------- bounds
\* Number of queue_audio calls made over a run (calls are numbered in the
\* order they are made).
MaxCalls == 3
\* Number of distinct pre-rendered audio files a caller may name.
MaxFiles == 1

Calls == 1..MaxCalls
Files == 1..MaxFiles
\* Python's None for audio_file / current_audio_file / current_process.
None == 0

\* _generate_unique_audio_filename: a timestamp plus a uuid4, so a name no
\* other call and no pre-rendered file has.
UniqueFile(c) == MaxFiles + c

RangeOf(s) == {s[i] : i \in DOMAIN s}

\* ------------------------------------------------------------- variables
VARIABLES
    \* --- AudioManager fields
    audio_queue,             \* self.audio_queue: FIFO of (audio_file, call)
    unfinished_tasks,        \* asyncio.Queue's count behind join()/task_done()
    state,                   \* self.state: AudioManagerState
    current_process,         \* self.current_process: None or the loop that spawned it
    audio_complete,          \* self.audio_complete (asyncio.Event): is it set
    playback_lock,           \* self.playback_lock: [locked, waiters]
    is_processing_queue,     \* self.is_processing_queue
    queue_processor_task,    \* self.queue_processor_task: None or a loop task
    \* --- coroutines
    call_pc,                 \* each queue_audio call: "idle", "synth", "done"
                             \* ("done_empty": done, its synthesis gave no bytes)
    call_file,               \* the audio_file each call carries (None before the call)
    call_result,             \* how each call ended
    loop_pc,                 \* each process_audio_queue task's position
    loop_item,               \* the queue item a loop task holds
    \* --- history (not read by any action guard)
    played,                  \* calls in the order their playback started
    finished,                \* per call: "no", or how its play_audio ended
    stale,                   \* calls that were queued, not yet playing, at a clear_queue
    drained,                 \* calls removed from the queue by clear_queue
    dup_accepted,            \* calls accepted while a same-identity task was pending or playing
    unlocked_write,          \* self.state was written or replaced with state_lock not held
    \* --- SimplifiedTTSProcessor
    oneshot_raw_texts,       \* self.oneshot_raw_texts: base id -> raw draft
    chunk_count,             \* chunks received so far
    last_chunk,              \* what the last process_chunk call did
    idle_elapsed,            \* a full idle period has passed since the last chunk
    call_chunk,              \* per queue_audio call: the process_chunk that made it
    \* --- StreamingTTSHandler
    processed_response_ids,  \* self.processed_response_ids
    response_chunks,         \* self.response_chunks: base id -> list of TextChunk
                             \* (chunk_counter has the same keys, each with value 0)
    cleanup_tasks,           \* the _cleanup_response tasks asleep, by base id, oldest first
    last_stream,             \* what the last process_stream_chunk call did
    \* --- claude_speak.py
    clock,                   \* time.time(), in seconds
    dedup_cache,             \* the content of DEDUP_CACHE_FILE: cleaned text -> time
    recent_messages,         \* the global recent_messages
    speak,                   \* the speak_with_retry call in progress or last made
    speak_count,             \* speak_with_retry calls made so far
    spoken,                  \* history: cleaned text -> time of its last successful request
    \* --- callers of the control operations
    stop_call,               \* the stop_audio_queue call: [pc, task]
    reset_call,              \* the reset_conversation or stop_current_audio call:
                             \* [pc, process, calls, op]
    wait_call                \* the completion wait: [pc, kind, timeout, call]

amVars == <<audio_queue, unfinished_tasks, state, current_process, audio_complete,
            playback_lock, is_processing_queue, queue_processor_task>>
coVars == <<call_pc, call_file, call_result, loop_pc, loop_item>>
histVars == <<played, finished, stale, drained, dup_accepted, unlocked_write>>
handlerVars == <<processed_response_ids, response_chunks, cleanup_tasks, last_stream>>
speakVars == <<clock, dedup_cache, recent_messages, speak, speak_count, spoken>>
chunkVars == <<oneshot_raw_texts, chunk_count, last_chunk, idle_elapsed, call_chunk, handlerVars,
               speakVars>>
opVars == <<stop_call, reset_call, wait_call>>
vars == <<amVars, coVars, histVars, chunkVars, opVars>>

\* AudioManagerState() as constructed (is_speaking always equals is_playing
\* and is_listening is never written, so neither is kept).
AudioManagerState ==
    [is_playing |-> FALSE,
     playback_start_time |-> FALSE,
     current_audio_file |-> None,
     expected_duration |-> "none",
     currently_queued_files |-> {}]

NoItem == [audio_file |-> None, call |-> 0]

\* A queue_audio call that no process_chunk made.
NoChunk == [branch |-> "none", base |-> <<>>]

\* ------------------------------------------------------------------ Init
\* AudioManager.__init__ (the event starts set, the queue empty, no loop task)
\* and SimplifiedTTSProcessor.__init__ (no stored draft).
Init ==
    /\ audio_queue = <<>>
    /\ unfinished_tasks = 0
    /\ state = AudioManagerState
    /\ current_process = None
    /\ audio_complete = TRUE
    /\ playback_lock = [locked |-> FALSE, waiters |-> <<>>]
    /\ is_processing_queue = FALSE
    /\ queue_processor_task = None
    /\ call_pc = [c \in Calls |-> "idle"]
    /\ call_file = [c \in Calls |-> None]
    /\ call_result = [c \in Calls |-> "none"]
    /\ loop_pc = [c \in Calls |-> "none"]
    /\ loop_item = [c \in Calls |-> NoItem]
    /\ played = <<>>
    /\ finished = [c \in Calls |-> "no"]
    /\ stale = {}
    /\ drained = {}
    /\ dup_accepted = {}
    /\ unlocked_write = FALSE
    /\ oneshot_raw_texts = <<>>
    /\ chunk_count = 0
    /\ last_chunk = [branch |-> "none", is_complete |-> FALSE, rid |-> <<>>, text |-> <<>>,
                     had_draft |-> FALSE,
                     stored |-> <<>>, match |-> [a |-> 0, b |-> 0, size |-> 0],
                     handed |-> <<>>]
    /\ idle_elapsed = FALSE
    /\ call_chunk = [c \in Calls |-> NoChunk]
    /\ processed_response_ids = {}
    /\ response_chunks = <<>>
    /\ cleanup_tasks = <<>>
    /\ last_stream = [response_id |-> <<>>, skipped |-> FALSE]
    /\ clock = 0
    /\ dedup_cache = <<>>
    /\ recent_messages = <<>>
    /\ speak = [pc |-> "idle", text |-> <<>>, bypass_dedup |-> FALSE, retries |-> 0,
                attempt |-> 0, requests |-> 0, failures |-> 0, result |-> "none",
                duplicate |-> FALSE, began |-> 0]
    /\ speak_count = 0
    /\ spoken = <<>>
    /\ stop_call = [pc |-> "idle", task |-> None]
    /\ reset_call = [pc |-> "idle", process |-> None, calls |-> call_pc, op |-> "none"]
    /\ wait_call = [pc |-> "idle", kind |-> "none", timeout |-> FALSE, call |-> 0]

\* ============================================================== Part I
\* --------------------------------------------------------------- helpers
\* Calls are made one after the other: c is the next call to be made.
NextCall(c) == call_pc[c] = "idle" /\ \A d \in Calls : d < c => call_pc[d] # "idle"

\* The positions of a loop task inside play_audio, after is_playing was set.
PlayingPcs == {"spawn", "wait", "settle"}
\* The positions of a live loop task (created, possibly not yet started).
ActivePcs == {"created", "get", "lockwait"} \cup PlayingPcs

\* The calls whose task is queued, held by a loop task or being played.
PendingCalls ==
    {audio_queue[i].call : i \in DOMAIN audio_queue}
        \cup {loop_item[l].call : l \in {k \in Calls : loop_pc[k] \in {"lockwait"} \cup PlayingPcs}}

\* A write to self.state: inside `async with self.state_lock` (held), or
\* outside of it.
StateWrite(held) == unlocked_write' = (unlocked_write \/ ~held)

\* The dedup test of queue_audio.
IsDuplicate(f) ==
    f \in state.currently_queued_files \/ f = state.current_audio_file

\* `if not self.is_processing_queue: create_task(process_audio_queue())`:
\* the new task only runs, and only sets the flag, at a later step.
MustCreateLoop == ~is_processing_queue

\* queue_audio from the dedup test on, for call c carrying audio_file f.
QueueTail(c, f) ==
    IF IsDuplicate(f)
    THEN /\ call_result' = [call_result EXCEPT ![c] = "duplicate"]
         /\ UNCHANGED <<audio_queue, unfinished_tasks, state, loop_pc,
                        queue_processor_task, dup_accepted, unlocked_write>>
    ELSE /\ state' = [state EXCEPT !.currently_queued_files = @ \cup {f}]
         /\ StateWrite(TRUE)
         /\ audio_queue' = Append(audio_queue, [audio_file |-> f, call |-> c])
         /\ unfinished_tasks' = unfinished_tasks + 1
         /\ call_result' = [call_result EXCEPT ![c] = "accepted"]
         /\ IF MustCreateLoop
            THEN /\ loop_pc' = [loop_pc EXCEPT ![c] = "created"]
                 /\ queue_processor_task' = c
            ELSE UNCHANGED <<loop_pc, queue_processor_task>>
         /\ dup_accepted' =
                IF \E d \in PendingCalls : call_file[d] = f
                THEN dup_accepted \cup {c} ELSE dup_accepted

\* ------------------------------------------------------------ queue_audio
\* queue_audio(audio_file=f): no await suspends, the call runs in one step.
QueueAudioFile(c, f) ==
    /\ NextCall(c)
    /\ call_pc' = [call_pc EXCEPT ![c] = "done"]
    /\ call_file' = [call_file EXCEPT ![c] = f]
    /\ QueueTail(c, f)
    /\ UNCHANGED <<current_process, audio_complete, playback_lock, is_processing_queue,
                   loop_item, played, finished, stale, drained, chunkVars, opVars>>

\* queue_audio(generated_text=...): the call picks its unique file and
\* suspends in _save_tts_to_file (run_in_executor).
BeginSynthesis(c) ==
    /\ NextCall(c)
    /\ call_pc' = [call_pc EXCEPT ![c] = "synth"]
    /\ call_file' = [call_file EXCEPT ![c] = UniqueFile(c)]

QueueAudioText(c) ==
    /\ BeginSynthesis(c)
    /\ UNCHANGED <<amVars, call_result, loop_pc, loop_item, histVars, chunkVars, opVars>>

\* _save_tts_to_file returned: the call goes on to the dedup test and the put.
SynthDoneBody(c) ==
    /\ call_pc[c] = "synth"
    /\ call_pc' = [call_pc EXCEPT ![c] = "done"]
    /\ QueueTail(c, call_file[c])
    /\ UNCHANGED <<current_process, audio_complete, playback_lock, is_processing_queue,
                   call_file, loop_item, played, finished, stale, drained, opVars>>

SynthDone(c) == SynthDoneBody(c) /\ UNCHANGED chunkVars

\* The provider returned no audio: b"".join(...) is b"", which
\* _save_tts_to_file writes to the file like any other result, and returns;
\* queue_audio goes on exactly as in SynthDone.
SynthEmpty(c) ==
    /\ call_pc[c] = "synth"
    /\ call_pc' = [call_pc EXCEPT ![c] = "done_empty"]
    /\ QueueTail(c, call_file[c])
    /\ UNCHANGED <<current_process, audio_complete, playback_lock, is_processing_queue,
                   call_file, loop_item, played, finished, stale, drained, chunkVars, opVars>>

\* _save_tts_to_file raised: queue_audio prints and returns.
SynthFailedBody(c) ==
    /\ call_pc[c] = "synth"
    /\ call_pc' = [call_pc EXCEPT ![c] = "done"]
    /\ call_result' = [call_result EXCEPT ![c] = "synth_failed"]
    /\ UNCHANGED <<amVars, call_file, loop_pc, loop_item, histVars, opVars>>

SynthFailed(c) == SynthFailedBody(c) /\ UNCHANGED chunkVars

\* ---------------------------------------------------- process_audio_queue
\* C2's mutant: play_audio without its playback_lock.
CanAcquireAlways(l) == TRUE

\* asyncio.Lock.acquire returns at once only when the lock is free and no
\* earlier waiter is queued for it; otherwise the caller joins the waiters.
CanAcquire(l) ==
    /\ ~playback_lock.locked
    /\ playback_lock.waiters = <<>> \/ Head(playback_lock.waiters) = l

\* C28's mutant: a metadata failure that reaches the outer handler, so that
\* play_audio goes to its finally block without spawning.
AfterMetadataSkips(l, d) ==
    loop_pc' = [loop_pc EXCEPT ![l] = IF d = "fallback" THEN "settle" ELSE "spawn"]

\* The metadata block has its own try/except: with the length read or with
\* the fallback, play_audio goes on to create_subprocess_shell.
AfterMetadata(l, d) == loop_pc' = [loop_pc EXCEPT ![l] = "spawn"]

\* play_audio up to its first suspension, the lock held: the state fields,
\* audio_complete.clear(), and the duration from the MP3 metadata (d) or,
\* when MP3() raises, the 2.0 fallback.
PlayBegin(l, item, d) ==
    /\ playback_lock' = [locked |-> TRUE,
                         waiters |-> IF playback_lock.waiters # <<>>
                                        /\ Head(playback_lock.waiters) = l
                                     THEN Tail(playback_lock.waiters)
                                     ELSE playback_lock.waiters]
    /\ state' = [state EXCEPT !.is_playing = TRUE,
                              !.playback_start_time = TRUE,
                              !.current_audio_file = item.audio_file,
                              !.expected_duration = d]
    /\ StateWrite(TRUE)
    /\ audio_complete' = FALSE
    /\ AfterMetadata(l, d)
    /\ loop_item' = [loop_item EXCEPT ![l] = item]
    /\ played' = Append(played, item.call)

Durations == {"metadata", "fallback"}

\* The first step of a loop task: is_processing_queue = True, then the
\* wait_for(get) of the first iteration.
LoopStart(l) ==
    /\ loop_pc[l] = "created"
    /\ is_processing_queue' = TRUE
    /\ loop_pc' = [loop_pc EXCEPT ![l] = "get"]
    /\ UNCHANGED <<audio_queue, unfinished_tasks, state, current_process, audio_complete,
                   playback_lock, queue_processor_task, call_pc, call_file, call_result,
                   loop_item, histVars, chunkVars, opVars>>

\* wait_for(audio_queue.get()) returns an item and play_audio is entered:
\* it either takes playback_lock and marks the state, or queues for the lock.
LoopGet(l) ==
    /\ loop_pc[l] = "get"
    /\ audio_queue # <<>>
    /\ audio_queue' = Tail(audio_queue)
    /\ IF CanAcquire(l)
       THEN \E d \in Durations : PlayBegin(l, Head(audio_queue), d)
       ELSE /\ playback_lock' = [playback_lock EXCEPT !.waiters = Append(@, l)]
            /\ loop_pc' = [loop_pc EXCEPT ![l] = "lockwait"]
            /\ loop_item' = [loop_item EXCEPT ![l] = Head(audio_queue)]
            /\ UNCHANGED <<state, audio_complete, played, unlocked_write>>
    /\ UNCHANGED <<unfinished_tasks, current_process, is_processing_queue,
                   queue_processor_task, call_pc, call_file, call_result,
                   finished, stale, drained, dup_accepted, chunkVars, opVars>>

\* A loop task that waited for playback_lock gets it.
LockAcquired(l) ==
    /\ loop_pc[l] = "lockwait"
    /\ CanAcquire(l)
    /\ \E d \in Durations : PlayBegin(l, loop_item[l], d)
    /\ UNCHANGED <<audio_queue, unfinished_tasks, current_process, is_processing_queue,
                   queue_processor_task, call_pc, call_file, call_result,
                   finished, stale, drained, dup_accepted, chunkVars, opVars>>

\* create_subprocess_shell returned a process; play_audio awaits its exit.
SpawnDone(l) ==
    /\ loop_pc[l] = "spawn"
    /\ current_process' = l
    /\ loop_pc' = [loop_pc EXCEPT ![l] = "wait"]
    /\ UNCHANGED <<audio_queue, unfinished_tasks, state, audio_complete, playback_lock,
                   is_processing_queue, queue_processor_task, call_pc, call_file,
                   call_result, loop_item, histVars, chunkVars, opVars>>

\* C21's mutant: a join() released while one task is still unfinished.
WaitOverOneLeft(kind) ==
    IF kind = "audio_completion" THEN audio_complete ELSE unfinished_tasks <= 1

\* What the wait awaits has happened: audio_complete is set, or the queue
\* counts no unfinished task (join() and the `_finished` event).
WaitOver(kind) ==
    IF kind = "audio_completion" THEN audio_complete ELSE unfinished_tasks = 0

\* Event.set() (audio_complete.set(), and the queue's `_finished.set()` in
\* the task_done() that brings the count to zero) resolves the future of a
\* suspended wait in the same step; the wait returns at a later step,
\* without testing anything again.
WaitWake ==
    \E kind \in {wait_call.kind} :
        wait_call' = IF wait_call.pc = "waiting" /\ WaitOver(kind)'
                     THEN [wait_call EXCEPT !.pc = "woken"]
                     ELSE wait_call

\* C8's mutant: the loop without its discard.
FilesAfterPlayKept(l) == state.currently_queued_files

\* `self.state.currently_queued_files.discard(audio_file)` in the loop.
FilesAfterPlay(l) == state.currently_queued_files \ {loop_item[l].audio_file}

\* The finally block of play_audio, the release of playback_lock, then, back
\* in the loop, the discard from currently_queued_files and task_done(),
\* and the loop task waits for the next item.  Nothing in between suspends.
PlayEnd(l, how) ==
    /\ current_process' = None
    /\ state' = [state EXCEPT !.is_playing = FALSE,
                              !.playback_start_time = FALSE,
                              !.current_audio_file = None,
                              !.expected_duration = "none",
                              !.currently_queued_files = FilesAfterPlay(l)]
    /\ StateWrite(TRUE)
    /\ audio_complete' = TRUE
    /\ playback_lock' = [playback_lock EXCEPT !.locked = FALSE]
    /\ unfinished_tasks' = unfinished_tasks - 1
    /\ finished' = [finished EXCEPT ![loop_item[l].call] = how]
    /\ loop_item' = [loop_item EXCEPT ![l] = NoItem]
    /\ WaitWake

\* C7's mutant: the loop task ends after one item.
AfterPlayExits(l) == loop_pc' = [loop_pc EXCEPT ![l] = "exited"]

\* What the loop task does after play_audio returned or failed: the `while
\* self.is_processing_queue` test, then the next get, or the end of the task
\* (whose finally leaves the flag false, as it found it).
AfterPlay(l) ==
    loop_pc' = [loop_pc EXCEPT ![l] = IF is_processing_queue THEN "get" ELSE "exited"]

\* create_subprocess_shell raised: except prints, finally cleans up.
SpawnFailed(l) ==
    /\ loop_pc[l] = "spawn"
    /\ PlayEnd(l, "spawn_failed")
    /\ AfterPlay(l)
    /\ UNCHANGED <<audio_queue, is_processing_queue, queue_processor_task, call_pc,
                   call_file, call_result, played, stale, drained, dup_accepted, chunkVars,
                   stop_call, reset_call>>

\* current_process.wait() returned (whatever the exit status: a nonzero
\* status is no exception); play_audio sleeps its 0.7 s settle delay.
\* A stop_current_audio call awaiting the same process is woken by the same
\* exit and returns in the same turn of the event loop.
ProcessExited(l) ==
    /\ loop_pc[l] = "wait"
    /\ loop_pc' = [loop_pc EXCEPT ![l] = "settle"]
    /\ reset_call' = IF reset_call.pc = "waiting" /\ reset_call.process = l
                     THEN [reset_call EXCEPT !.pc = "done"]
                     ELSE reset_call
    /\ UNCHANGED <<amVars, call_pc, call_file, call_result, loop_item, histVars, chunkVars,
                   stop_call, wait_call>>

\* The settle delay is over: finally, release, discard, task_done.
SettleDone(l) ==
    /\ loop_pc[l] = "settle"
    /\ PlayEnd(l, "exited")
    /\ AfterPlay(l)
    /\ UNCHANGED <<audio_queue, is_processing_queue, queue_processor_task, call_pc,
                   call_file, call_result, played, stale, drained, dup_accepted, chunkVars,
                   stop_call, reset_call>>

\* ------------------------------------------------------------ clear_queue
\* C10's mutant: a clear_queue that takes one item only.
QueueAfterClearOne == IF audio_queue = <<>> THEN <<>> ELSE Tail(audio_queue)

\* get_nowait()/task_done() until the queue is empty, then the set is
\* cleared; nothing suspends.
QueueAfterClear == <<>>

ClearQueueBody ==
    /\ audio_queue' = QueueAfterClear
    /\ unfinished_tasks' = unfinished_tasks - Len(audio_queue)
    /\ state' = [state EXCEPT !.currently_queued_files = {}]
    /\ StateWrite(TRUE)
    /\ stale' = stale \cup (PendingCalls \ RangeOf(played))
    /\ drained' = drained \cup {audio_queue[i].call : i \in DOMAIN audio_queue}

clear_queue ==
    /\ ClearQueueBody
    /\ UNCHANGED <<current_process, audio_complete, playback_lock, is_processing_queue,
                   queue_processor_task, coVars, played, finished, dup_accepted, chunkVars,
                   stop_call, reset_call>>
    /\ WaitWake

\* ------------------------------------------------------ reset_audio_state
\* C13's mutant: a reset that forgets current_audio_file.
ResetStateKeepsFile ==
    [AudioManagerState EXCEPT !.current_audio_file = state.current_audio_file]

\* `self.state = AudioManagerState()`
ResetState == AudioManagerState

\* reset_audio_state (synchronous): a fresh state object, terminate() on the
\* current process if there is one, and the handle is dropped.  A play_audio
\* that awaits the process goes on awaiting it.
reset_audio_state ==
    /\ state # ResetState \/ current_process # None
    /\ state' = ResetState
    /\ StateWrite(FALSE)
    /\ current_process' = None
    /\ UNCHANGED <<audio_queue, unfinished_tasks, audio_complete, playback_lock,
                   is_processing_queue, queue_processor_task, coVars, played, finished,
                   stale, drained, dup_accepted, chunkVars, opVars>>

\* ----------------------------------------- reset_conversation, stop_current_audio
\* asyncio.create_subprocess_shell forks the child in its first step and
\* returns the handle some turns of the event loop later: a play_audio
\* suspended in it has a running child that current_process does not name yet.
SubprocessAlive(l) == loop_pc[l] \in {"spawn", "wait"}

\* stop_current_audio suspends only in `await self.current_process.wait()`,
\* and only when that process has not exited yet (terminate() on an exited
\* process raises, which the except swallows).
StopMustWait == current_process # None /\ loop_pc[current_process] = "wait"

\* SimplifiedTTSProcessor.reset_conversation: the draft buffer is cleared,
\* clear_queue() runs (it never suspends), then stop_current_audio().
ResetBegin ==
    /\ reset_call.pc = "idle"
    /\ oneshot_raw_texts' = <<>>
    /\ ClearQueueBody
    /\ reset_call' = [pc |-> IF StopMustWait THEN "waiting" ELSE "done",
                      process |-> current_process,
                      calls |-> call_pc,
                      op |-> "reset_conversation"]
    /\ UNCHANGED <<current_process, audio_complete, playback_lock, is_processing_queue,
                   queue_processor_task, coVars, played, finished, dup_accepted,
                   chunk_count, last_chunk, idle_elapsed, call_chunk, handlerVars, speakVars,
                   stop_call>>
    /\ WaitWake

\* stop_current_audio called on its own (the /stop_audio handler): with a
\* process handle whose process still runs, terminate() and the await of its
\* exit; otherwise nothing.  The call resumes in ProcessExited.
stop_current_audio ==
    /\ reset_call.pc = "idle"
    /\ reset_call' = [pc |-> IF StopMustWait THEN "waiting" ELSE "done",
                      process |-> current_process,
                      calls |-> call_pc,
                      op |-> "stop_current_audio"]
    /\ UNCHANGED <<amVars, coVars, histVars, chunkVars, stop_call, wait_call>>

\* ------------------------- wait_for_audio_completion, wait_for_queue_empty
WaitKinds == {"audio_completion", "queue_empty"}

\* Whether the call suspends: wait_for_audio_completion only when
\* is_playing, wait_for_queue_empty only when tasks are unfinished.
WaitSuspends(kind) ==
    IF kind = "audio_completion" THEN state.is_playing ELSE unfinished_tasks # 0

\* A call of one of the two waits.  Both are declared with `self` as their
\* only parameter: called with timeout=... (as the server's handlers call
\* them) the call raises TypeError before the body runs; called without,
\* it returns at once or suspends with no deadline.
WaitBeginFor(c, kind, with_timeout) ==
    /\ wait_call.pc = "idle"
    /\ wait_call' = [pc |-> IF with_timeout THEN "raised"
                            ELSE IF WaitSuspends(kind) THEN "waiting" ELSE "returned",
                     kind |-> kind,
                     timeout |-> with_timeout,
                     call |-> c]
    /\ UNCHANGED <<amVars, coVars, histVars, chunkVars, stop_call, reset_call>>

\* A wait called on its own, for no queue_audio call in particular.
WaitBegin(kind, with_timeout) == WaitBeginFor(0, kind, with_timeout)

\* The woken wait is resumed and returns.
WaitReturn ==
    /\ wait_call.pc = "woken"
    /\ wait_call' = [wait_call EXCEPT !.pc = "returned"]
    /\ UNCHANGED <<amVars, coVars, histVars, chunkVars, stop_call, reset_call>>

\* ------------------------------------------------------- stop_audio_queue
\* wait_for(get, timeout=1.0) timed out on the empty queue and the `while`
\* test found the flag false: the loop task ends (finally: flag false).
LoopPoll(l) ==
    /\ loop_pc[l] = "get"
    /\ audio_queue = <<>>
    /\ ~is_processing_queue
    /\ loop_pc' = [loop_pc EXCEPT ![l] = "exited"]
    /\ is_processing_queue' = FALSE
    /\ UNCHANGED <<audio_queue, unfinished_tasks, state, current_process, audio_complete,
                   playback_lock, queue_processor_task, call_pc, call_file, call_result,
                   loop_item, histVars, chunkVars, opVars>>

\* Whether `await task` returns at once: the task has ended.
TaskDone(l) == loop_pc[l] = "exited"

\* stop_audio_queue: the flag is cleared; with no task, or a task that has
\* ended, the call returns at once, otherwise it awaits the task that
\* queue_processor_task names at this moment.
StopBegin ==
    /\ stop_call.pc = "idle"
    /\ is_processing_queue' = FALSE
    /\ IF queue_processor_task = None
       THEN /\ stop_call' = [pc |-> "done", task |-> None]
            /\ UNCHANGED queue_processor_task
       ELSE IF TaskDone(queue_processor_task)
       THEN /\ stop_call' = [pc |-> "done", task |-> queue_processor_task]
            /\ queue_processor_task' = None
       ELSE /\ stop_call' = [pc |-> "waiting", task |-> queue_processor_task]
            /\ UNCHANGED queue_processor_task
    /\ UNCHANGED <<audio_queue, unfinished_tasks, state, current_process, audio_complete,
                   playback_lock, coVars, histVars, chunkVars, reset_call, wait_call>>

\* The awaited task has ended: `self.queue_processor_task = None`, return.
StopReturn ==
    /\ stop_call.pc = "waiting"
    /\ TaskDone(stop_call.task)
    /\ stop_call' = [stop_call EXCEPT !.pc = "done"]
    /\ queue_processor_task' = None
    /\ UNCHANGED <<audio_queue, unfinished_tasks, state, current_process, audio_complete,
                   playback_lock, is_processing_queue, coVars, histVars, chunkVars,
                   reset_call, wait_call>>

stop_audio_queue == StopBegin \/ StopReturn

\* ------------------------------------------------------------------ Next
\* The files a caller may name next: one already named, or the first file
\* not named yet (files are interchangeable, so this loses no behaviour).
NameableFiles ==
    {f \in Files : \A g \in Files : g < f => g \in {call_file[d] : d \in Calls}}

LoopStep(l) ==
    \/ LoopStart(l)
    \/ LoopGet(l)
    \/ LockAcquired(l)
    \/ SpawnDone(l)
    \/ SpawnFailed(l)
    \/ ProcessExited(l)
    \/ SettleDone(l)

Producer(c) ==
    \/ \E f \in NameableFiles : QueueAudioFile(c, f)
    \/ QueueAudioText(c)
    \/ SynthDone(c)
    \/ SynthFailed(c)

Next ==
    \/ \E c \in Calls : Producer(c)
    \/ \E l \in Calls : LoopStep(l)
    \/ clear_queue

Spec == Init /\ [][Next]_vars

\* The same system with no clear_queue, and the scheduling the event loop
\* gives: a loop task that can take a step eventually takes one (a ready
\* callback is run; a spawned subprocess eventually exits).
NextLive ==
    \/ \E c \in Calls : Producer(c)
    \/ \E l \in Calls : LoopStep(l)

SpecLive == Init /\ [][NextLive]_vars /\ \A l \in Calls : WF_vars(LoopStep(l))

\* The system with reset_audio_state and a reset_conversation call.
NextControl ==
    \/ \E c \in Calls : Producer(c)
    \/ \E l \in Calls : LoopStep(l)
    \/ clear_queue
    \/ reset_audio_state
    \/ ResetBegin

SpecControl == Init /\ [][NextControl]_vars

\* The system with a provider that may also return empty audio.
NextSynth ==
    \/ \E c \in Calls : Producer(c)
    \/ \E c \in Calls : SynthEmpty(c)
    \/ \E l \in Calls : LoopStep(l)

SpecSynth == Init /\ [][NextSynth]_vars

\* The system with a stop_current_audio call.
NextStopCurrent ==
    \/ \E c \in Calls : Producer(c)
    \/ \E l \in Calls : LoopStep(l)
    \/ stop_current_audio

SpecStopCurrent == Init /\ [][NextStopCurrent]_vars

\* The system with a call of one of the completion waits.
NextWait ==
    \/ \E c \in Calls : Producer(c)
    \/ \E l \in Calls : LoopStep(l)
    \/ clear_queue
    \/ \E kind \in WaitKinds, with_timeout \in BOOLEAN : WaitBegin(kind, with_timeout)
    \/ WaitReturn

SpecWait == Init /\ [][NextWait]_vars

\* The system with a stop_audio_queue call (and no clear_queue).
NextStop ==
    \/ \E c \in Calls : Producer(c)
    \/ \E l \in Calls : LoopStep(l)
    \/ \E l \in Calls : LoopPoll(l)
    \/ stop_audio_queue

SpecStop == Init /\ [][NextStop]_vars

\* ============================================================= Part II
\* Texts are sequences of one-character strings.
MaxTextLen == 5
\* process_chunk calls made over a run.
MaxChunks == 2

\* An upper-case letter (so that lower() is not the identity) and a space
\* (so that strip() and the whitespace rules act).
Alphabet == {"A", " "}
Texts == UNION {[1..n -> Alphabet] : n \in 0..MaxTextLen}

\* Response ids are the '-'-separated parts of the id string.
RidOneshot == <<"claude", "resp", "1", "oneshot">>
RidComplete == <<"claude", "resp", "1", "complete">>
\* The final chunk of another response.
RidOtherComplete == <<"claude", "resp", "2", "complete">>
ResponseIds == {RidOneshot, RidComplete, RidOtherComplete}

\* ---------------------------------------------------------- str methods
\* What Python's \s and str.strip() treat as whitespace, among the
\* characters used here.
Whitespace == {" ", "\n", "\t"}

\* str.lower() on one character.
LowerChar(ch) == IF ch = "A" THEN "a" ELSE ch

\* str.lower()
lower(s) == [i \in 1..Len(s) |-> LowerChar(s[i])]

\* s[from:] with a 0-based offset.
SliceFrom(s, from) == SubSeq(s, from + 1, Len(s))

RECURSIVE lstrip(_)
lstrip(s) == IF s # <<>> /\ Head(s) \in Whitespace THEN lstrip(Tail(s)) ELSE s

RECURSIVE rstrip(_)
rstrip(s) ==
    IF s # <<>> /\ s[Len(s)] \in Whitespace THEN rstrip(SubSeq(s, 1, Len(s) - 1)) ELSE s

\* str.strip()
strip(s) == rstrip(lstrip(s))

\* The start of the run of line breaks that position i of s (a line break)
\* lies in.
BreakRunStart(s, i) ==
    CHOOSE r \in 1..i :
        /\ \A k \in r..i : s[k] = "\n"
        /\ r = 1 \/ s[r - 1] # "\n"

\* str.replace('\n\n', '. '): leftmost non-overlapping occurrences, so the
\* line breaks of a run are taken in pairs from the start of the run (an
\* odd one is left at its end); each pair becomes '. ', which has the
\* length of the pair.
ReplaceParagraphBreaks(s) ==
    [i \in 1..Len(s) |->
        IF s[i] # "\n" THEN s[i]
        ELSE IF (i - BreakRunStart(s, i)) % 2 = 1 THEN " "
        ELSE IF i < Len(s) /\ s[i + 1] = "\n" THEN "."
        ELSE s[i]]

\* str.replace('\n', ' ')
ReplaceLineBreaks(s) == [i \in 1..Len(s) |-> IF s[i] = "\n" THEN " " ELSE s[i]]

\* The characters of a sequence of [ch, keep] records that are marked to
\* be kept, in order.
IsKept(m) == m.keep
KeptChars(marked) ==
    LET kept == SelectSeq(marked, IsKept) IN [i \in 1..Len(kept) |-> kept[i].ch]

\* re.sub(r'\s+', ' ', s): every maximal run of whitespace becomes one space
\* (the first character of the run stays, as a space; the others go).
CollapseSpaces(s) ==
    KeptChars([i \in 1..Len(s) |->
        [ch |-> IF s[i] \in Whitespace THEN " " ELSE s[i],
         keep |-> s[i] \notin Whitespace \/ i = 1 \/ s[i - 1] \notin Whitespace]])

\* The nearest character of s before / after position i that is not
\* whitespace ("" when there is none).
PrevNonSpace(s, i) ==
    LET at == {k \in 1..(i - 1) : s[k] \notin Whitespace}
    IN  IF at = {} THEN "" ELSE s[CHOOSE k \in at : \A k2 \in at : k2 <= k]
NextNonSpace(s, i) ==
    LET at == {k \in (i + 1)..Len(s) : s[k] \notin Whitespace}
    IN  IF at = {} THEN "" ELSE s[CHOOSE k \in at : \A k2 \in at : k <= k2]

\* re.sub(r'\(\s*\)', '', s): one left-to-right pass over the text as it
\* is; every "(" whose next non-whitespace character is ")" goes, with that
\* ")" and the whitespace between them.  What the removals bring together
\* is not looked at again.
RemoveEmptyParens(s) ==
    KeptChars([i \in 1..Len(s) |->
        [ch |-> s[i],
         keep |-> ~ \/ s[i] = "(" /\ NextNonSpace(s, i) = ")"
                    \/ s[i] = ")" /\ PrevNonSpace(s, i) = "("
                    \/ s[i] \in Whitespace /\ PrevNonSpace(s, i) = "("
                                             /\ NextNonSpace(s, i) = ")"]])

\* SimplifiedTTSProcessor._clean_text_for_tts
clean_text_for_tts(text) ==
    IF text = <<>> THEN <<>>
    ELSE strip(RemoveEmptyParens(CollapseSpaces(ReplaceLineBreaks(
             ReplaceParagraphBreaks(strip(text))))))

\* ------------------------------------------------------ response ids
known_suffixes == {"oneshot", "delta", "complete", "full", "finalized", "stop"}

\* SimplifiedTTSProcessor._get_base_response_id, on the parts of the id.
get_base_response_id(parts) ==
    IF Len(parts) > 2 /\ parts[Len(parts)] \in known_suffixes
    THEN IF Len(parts) > 3 /\ parts[Len(parts) - 1] \in known_suffixes
         THEN SubSeq(parts, 1, Len(parts) - 2)
         ELSE SubSeq(parts, 1, Len(parts) - 1)
    ELSE parts

\* C39's mutant: every id taken as a draft's.
HasOneshotAlways(parts) == TRUE

\* `"oneshot" in full_response_id`
HasOneshot(parts) == \E i \in DOMAIN parts : parts[i] = "oneshot"

\* ------------------------------------------------- find_longest_match
\* SequenceMatcher's autojunk heuristic (on by default): when b has at
\* least 200 elements, every element that occurs more than len(b) // 100 + 1
\* times in b is "popular" and is left out of the index the search uses.
AutojunkLen == 200
Popular(b) ==
    IF Len(b) >= AutojunkLen
    THEN {ch \in RangeOf(b) :
             Cardinality({i \in DOMAIN b : b[i] = ch}) > (Len(b) \div 100) + 1}
    ELSE {}

\* The length of the common prefix of a[i..] and b[j..] (1-based) that the
\* search can see: it ends before the first popular element of b.
RECURSIVE CommonPrefixLen(_, _, _, _, _)
CommonPrefixLen(a, b, i, j, popular) ==
    IF i <= Len(a) /\ j <= Len(b) /\ a[i] = b[j] /\ b[j] \notin popular
    THEN 1 + CommonPrefixLen(a, b, i + 1, j + 1, popular)
    ELSE 0

\* The block found is then extended at both ends over elements that are
\* equal, popular or not (no element is junk here: isjunk is None).
RECURSIVE ExtendLeft(_, _, _)
ExtendLeft(a, b, m) ==
    IF m.a > 0 /\ m.b > 0 /\ a[m.a] = b[m.b]
    THEN ExtendLeft(a, b, [a |-> m.a - 1, b |-> m.b - 1, size |-> m.size + 1])
    ELSE m

RECURSIVE ExtendRight(_, _, _)
ExtendRight(a, b, m) ==
    IF m.a + m.size < Len(a) /\ m.b + m.size < Len(b)
          /\ a[m.a + m.size + 1] = b[m.b + m.size + 1]
    THEN ExtendRight(a, b, [m EXCEPT !.size = @ + 1])
    ELSE m

\* difflib.SequenceMatcher(None, a, b).find_longest_match(0, len(a), 0, len(b))
\* the longest matching block free of popular elements, of those the one
\* starting earliest in a, of those the one starting earliest in b, and
\* (0, 0, 0) when there is none; then the extension over equal elements.
\* Offsets are 0-based.  The search keeps the first block, in row-major
\* order of the start pairs (i, j), that is strictly longer than every block
\* before it: the longest, starting earliest in a, then earliest in b.
\* Under 200 characters nothing is popular and the result is the longest
\* matching block.
ScanMatches(a, b, popular) ==
    LET blocks == {[a |-> i, b |-> j, size |-> CommonPrefixLen(a, b, i + 1, j + 1, popular)] :
                      i \in 0..(Len(a) - 1), j \in 0..(Len(b) - 1)}
        longest == {m \in blocks : m.size > 0 /\ \A n \in blocks : n.size <= m.size}
    IN  IF longest = {} THEN [a |-> 0, b |-> 0, size |-> 0]
        ELSE CHOOSE m \in longest :
                 \A n \in longest : m.a < n.a \/ (m.a = n.a /\ m.b <= n.b)

find_longest_match(a, b) ==
    ExtendRight(a, b, ExtendLeft(a, b, ScanMatches(a, b, Popular(b))))

\* ------------------------------------------------------- process_chunk
\* C5's mutant: the threshold test written with >=.
GoodMatchAtLeast(size, n) == 5 * size >= 4 * n

\* `match.size > len(stored_oneshot) * 0.8` (the float product is exact
\* enough that this is 5 * size > 4 * len for every length under 2000).
GoodMatch(size, n) == 5 * size > 4 * n

\* C4's mutant: the slice taken from the start of the matched block.
DeltaTextFromMatchStart(text_content, match) == strip(SliceFrom(text_content, match.b))

\* `text_content[match.b + match.size:].strip()`
DeltaText(text_content, match) == strip(SliceFrom(text_content, match.b + match.size))

\* C18's mutant: the text handed over as it came.
HandedRaw(text) == IF text # <<>> THEN <<text>> ELSE <<>>

\* What _queue_for_tts is called with: the cleaned text, unless it is empty.
Handed(text) ==
    LET cleaned_text == clean_text_for_tts(text) IN
    IF cleaned_text # <<>> THEN <<cleaned_text>> ELSE <<>>

\* C17's mutant: an assignment that keeps the value a key already has.
DictPutKeepsOld(d, key, val) ==
    [x \in DOMAIN d \cup {key} |-> IF x \in DOMAIN d THEN d[x] ELSE val]

\* dict assignment on oneshot_raw_texts.
DictPut(d, key, val) == [x \in DOMAIN d \cup {key} |-> IF x = key THEN val ELSE d[x]]

\* C15's mutant: a `del` that removes nothing.
DictDelKept(d, key) == d

\* `del` on oneshot_raw_texts.
DictDel(d, key) == [x \in DOMAIN d \ {key} |-> d[x]]

NoMatch == [a |-> 0, b |-> 0, size |-> 0]

\* What a process_chunk call did: the branch it took, its arguments, the draft it
\* found (had_draft, stored), the match it computed and what it handed to
\* _queue_for_tts.
ChunkRecord(branch, is_complete, rid, text, had_draft, stored, match, handed) ==
    [branch |-> branch, is_complete |-> is_complete, rid |-> rid, text |-> text, had_draft |-> had_draft,
     stored |-> stored, match |-> match, handed |-> handed]

\* SimplifiedTTSProcessor.process_chunk, with an audio manager present, up
\* to its call of _queue_for_tts (nothing before it suspends).
ChunkBody(text_content, full_response_id, is_complete) ==
    LET base_id == get_base_response_id(full_response_id) IN
    /\ chunk_count < MaxChunks
    /\ chunk_count' = chunk_count + 1
    /\ IF ~is_complete /\ HasOneshot(full_response_id)
       THEN /\ oneshot_raw_texts' = DictPut(oneshot_raw_texts, base_id, text_content)
            /\ last_chunk' = ChunkRecord("draft", is_complete, full_response_id, text_content,
                                         base_id \in DOMAIN oneshot_raw_texts,
                                         IF base_id \in DOMAIN oneshot_raw_texts
                                         THEN oneshot_raw_texts[base_id] ELSE <<>>,
                                         NoMatch, Handed(text_content))
       ELSE IF is_complete
       THEN IF base_id \in DOMAIN oneshot_raw_texts
            THEN \E stored_oneshot \in {oneshot_raw_texts[base_id]} :
                 \E match \in {find_longest_match(lower(stored_oneshot), lower(text_content))} :
                 \E delta_text \in {DeltaText(text_content, match)} :
                     /\ oneshot_raw_texts' = DictDel(oneshot_raw_texts, base_id)
                     /\ IF GoodMatch(match.size, Len(stored_oneshot))
                        THEN IF delta_text # <<>>
                             THEN last_chunk' = ChunkRecord("delta", is_complete, full_response_id, text_content, TRUE,
                                                    stored_oneshot, match, Handed(delta_text))
                             ELSE last_chunk' = ChunkRecord("delta_empty", is_complete, full_response_id, text_content, TRUE,
                                                    stored_oneshot, match, <<>>)
                        ELSE last_chunk' = ChunkRecord("full", is_complete, full_response_id, text_content, TRUE,
                                               stored_oneshot, match, Handed(text_content))
            ELSE /\ oneshot_raw_texts' = oneshot_raw_texts
                 /\ last_chunk' = ChunkRecord("nodraft", is_complete, full_response_id, text_content, FALSE, <<>>, NoMatch,
                                              Handed(text_content))
       ELSE /\ oneshot_raw_texts' = oneshot_raw_texts
            /\ last_chunk' = ChunkRecord("ignored", is_complete, full_response_id, <<>>, FALSE, <<>>, NoMatch, <<>>)
    /\ idle_elapsed' = FALSE

\* process_chunk seen from the processor alone: what it hands over is
\* recorded, the audio manager is left out.
process_chunk(text_content, full_response_id, is_complete) ==
    /\ ChunkBody(text_content, full_response_id, is_complete)
    /\ UNCHANGED <<amVars, coVars, histVars, opVars, call_chunk, handlerVars, speakVars>>

\* process_chunk with the audio manager: when it hands a text over,
\* _queue_for_tts awaits queue_audio(generated_text=...), call c, which
\* suspends in the synthesis; the handler that called process_chunk stays
\* suspended with it, and other handlers run meanwhile.
StreamChunk(c, text_content, full_response_id, is_complete) ==
    /\ ChunkBody(text_content, full_response_id, is_complete)
    /\ IF last_chunk'.handed # <<>>
       THEN /\ BeginSynthesis(c)
            /\ call_chunk' = [call_chunk EXCEPT ![c] =
                                 [branch |-> last_chunk'.branch,
                                  base |-> get_base_response_id(full_response_id)]]
            /\ UNCHANGED <<call_result, loop_pc, loop_item>>
       ELSE UNCHANGED <<coVars, call_chunk>>
    /\ UNCHANGED <<amVars, histVars, opVars, handlerVars, speakVars>>

NextChunk ==
    \E text \in Texts, rid \in ResponseIds, is_complete \in BOOLEAN :
        process_chunk(text, rid, is_complete)

SpecChunk == Init /\ [][NextChunk]_vars

\* The texts of the /stream requests: a draft, a final text that continues
\* it, and one that cleans to nothing.
StreamTexts == {<<"A">>, <<"A", " ", "A">>, <<" ">>}

\* The server as a whole: concurrent /stream handlers, the syntheses they
\* await, the queue loop, and a /reset_conversation request.
NextStream ==
    \/ \E c \in Calls, text \in StreamTexts, rid \in ResponseIds, is_complete \in BOOLEAN :
           StreamChunk(c, text, rid, is_complete)
    \/ \E c \in Calls : SynthDone(c) \/ SynthFailed(c)
    \/ \E l \in Calls : LoopStep(l)
    \/ ResetBegin

SpecStream == Init /\ [][NextStream]_vars

\* ---------------------------------------------- ids of every shape
\* The '-'-separated parts a base id is made of: an ordinary part and one
\* that happens to be a known suffix.
MaxBaseParts == 3
IdParts == {"resp", "stop"}
Bases == UNION {[1..n -> IdParts] : n \in 1..MaxBaseParts}

\* base + '-' + suffix, split at the dashes.
SuffixedIds == {base \o <<suffix>> : base \in Bases, suffix \in known_suffixes}

\* process_chunk called with ids of every such shape (and one text).
NextBaseId ==
    \E rid \in SuffixedIds, is_complete \in BOOLEAN :
        process_chunk(<<"A">>, rid, is_complete)

SpecBaseId == Init /\ [][NextBaseId]_vars

\* ------------------------------------------- texts with punctuation
\* Texts with line breaks and parentheses, for the cleaning rules.
MaxCleanLen == 6
CleanAlphabet == {"A", " ", "(", ")", "\n"}
CleanTexts == UNION {[1..n -> CleanAlphabet] : n \in 0..MaxCleanLen}

\* A first process_chunk call: a final chunk with such a text (no draft is
\* stored, so the whole text is cleaned and handed over).
NextClean ==
    \E text \in CleanTexts :
        /\ chunk_count = 0
        /\ process_chunk(text, RidComplete, TRUE)

SpecClean == Init /\ [][NextClean]_vars

\* ------------------------------------------------------- long final texts
\* Drafts of up to MaxDraftLen characters, and final texts of 199 and of 200
\* characters: a prefix of up to MaxLongPrefix characters, then "A"s.
MaxDraftLen == 3
MaxLongPrefix == 1
Drafts == UNION {[1..n -> Alphabet] : n \in 0..MaxDraftLen}
LongPrefixes == UNION {[1..n -> Alphabet] : n \in 0..MaxLongPrefix}
LongTexts ==
    {[i \in 1..n |-> IF i <= Len(prefix) THEN prefix[i] ELSE "A"] :
        prefix \in LongPrefixes, n \in {AutojunkLen - 1, AutojunkLen}}

NextLong ==
    \/ \E text \in Drafts : process_chunk(text, RidOneshot, FALSE)
    \/ \E text \in LongTexts : process_chunk(text, RidComplete, TRUE)

SpecLong == Init /\ [][NextLong]_vars

\* The bounded idle period goes by with no chunk arriving.  The processor
\* starts no timer and no task of its own, so nothing of it runs.
IdlePeriod ==
    /\ ~idle_elapsed
    /\ idle_elapsed' = TRUE
    /\ UNCHANGED <<amVars, coVars, histVars, oneshot_raw_texts, chunk_count, last_chunk,
                   call_chunk, handlerVars, speakVars, opVars>>

NextIdle == NextChunk \/ IdlePeriod

SpecIdle == Init /\ [][NextIdle]_vars

\* ============================================================ Part III
\* StreamingTTSHandler (src/smart_streaming_processor.py) and the /stream
\* handler that drives it (src/tts_server.py).

\* Parts of a response id that str.isdigit() accepts, and their int().
DigitParts == {"1", "2"}
DigitValue(part) == IF part = "1" THEN 1 ELSE 2

\* The parts after which _parse_response_id drops the next part as well.
SkipKeywords == {"chunk", "delta", "final"}

\* The filter loop of _parse_response_id.
RECURSIVE FilterParts(_, _)
FilterParts(base_parts, skip_next) ==
    IF base_parts = <<>> THEN <<>>
    ELSE IF skip_next THEN FilterParts(Tail(base_parts), FALSE)
    ELSE IF Head(base_parts) \in SkipKeywords THEN FilterParts(Tail(base_parts), TRUE)
    ELSE <<Head(base_parts)>> \o FilterParts(Tail(base_parts), FALSE)

\* StreamingTTSHandler._parse_response_id, on the '-'-separated parts of a
\* non-empty id: rsplit('-', 1) takes the last part as the sequence number
\* when it is all digits, then the filter, then the first three parts.
parse_response_id(parts) ==
    LET has_sequence == Len(parts) >= 2 /\ parts[Len(parts)] \in DigitParts
        base_parts == IF has_sequence THEN SubSeq(parts, 1, Len(parts) - 1) ELSE parts
        filtered_parts == FilterParts(base_parts, FALSE)
    IN  [base_id |-> SubSeq(filtered_parts, 1,
                            IF Len(filtered_parts) < 3 THEN Len(filtered_parts) ELSE 3),
         sequence_num |-> IF has_sequence THEN DigitValue(parts[Len(parts)]) ELSE 0]

\* `len(chunk.content) > 5`
MinSpeakLen == 5

\* The response ids of the chunks: two chunks of one response and a chunk
\* of another.
HandlerIds == {<<"r", "1">>, <<"r", "2">>, <<"q", "chunk", "1">>}

\* The texts of the chunks: one long enough to be spoken, and one that is
\* not once stripped.
HandlerTexts ==
    {<<"A", "A", "A", "A", "A", "A">>, <<" ", "A", "A", "A", "A", "A">>}

\* TextChunk (its timestamp left out).
TextChunk(content, response_id, sequence_number, is_complete) ==
    [content |-> content, response_id |-> response_id,
     sequence_number |-> sequence_number, is_complete |-> is_complete]

\* _finalize_response: with chunks stored for the base id, a
\* _cleanup_response task is created, which sleeps 300 s.
finalize_response(base_id, chunks) ==
    cleanup_tasks' = IF base_id \in DOMAIN chunks
                     THEN Append(cleanup_tasks, base_id) ELSE cleanup_tasks

\* The queue_audio calls that process_stream_chunk made, by how the chunk
\* was flagged.
StreamBranches == {"stream", "stream_final"}

\* C33's mutant: a duplicate test that never finds the id.
NeverProcessed(response_id) == FALSE

\* `if response_id in self.processed_response_ids`
AlreadyProcessed(response_id) == response_id \in processed_response_ids

\* process_stream_chunk up to its first suspension: the duplicate test,
\* the id marked as processed, the chunk stored, and then either
\* queue_audio(generated_text=...), call c, which suspends in the
\* synthesis, or, for a short text, nothing and the finalization.
process_stream_chunk(c, text, is_complete, response_id) ==
    LET parsed == parse_response_id(response_id)
        base_id == parsed.base_id
        content == strip(text)
        chunk == TextChunk(content, response_id, parsed.sequence_num, is_complete)
        stored == IF base_id \in DOMAIN response_chunks
                  THEN response_chunks[base_id] ELSE <<>>
    IN
    /\ chunk_count < MaxChunks
    /\ chunk_count' = chunk_count + 1
    /\ IF AlreadyProcessed(response_id)
       THEN /\ last_stream' = [response_id |-> response_id, skipped |-> TRUE]
            /\ UNCHANGED <<processed_response_ids, response_chunks, cleanup_tasks,
                           coVars, call_chunk>>
       ELSE /\ last_stream' = [response_id |-> response_id, skipped |-> FALSE]
            /\ processed_response_ids' = processed_response_ids \cup {response_id}
            /\ response_chunks' = DictPut(response_chunks, base_id, Append(stored, chunk))
            /\ IF Len(content) > MinSpeakLen
               THEN /\ BeginSynthesis(c)
                    /\ call_chunk' = [call_chunk EXCEPT ![c] =
                                         [branch |-> IF is_complete THEN "stream_final"
                                                     ELSE "stream",
                                          base |-> response_id]]
                    /\ UNCHANGED <<call_result, loop_pc, loop_item, cleanup_tasks>>
               ELSE /\ IF is_complete
                       THEN finalize_response(base_id, response_chunks')
                       ELSE UNCHANGED cleanup_tasks
                    /\ UNCHANGED <<coVars, call_chunk>>
    /\ UNCHANGED <<amVars, histVars, opVars, oneshot_raw_texts, last_chunk, idle_elapsed,
                   speakVars>>

\* What process_stream_chunk does when queue_audio has returned: the
\* finalization of a chunk flagged complete.  (queue_audio returns the same
\* way after a put, a duplicate or a failed synthesis, which it catches
\* itself: the except clause of process_stream_chunk sees none of them.)
AfterQueueAudio(c) ==
    /\ call_chunk[c].branch \in StreamBranches
    /\ IF call_chunk[c].branch = "stream_final"
       THEN finalize_response(parse_response_id(call_chunk[c].base).base_id, response_chunks)
       ELSE UNCHANGED cleanup_tasks
    /\ UNCHANGED <<oneshot_raw_texts, chunk_count, last_chunk, idle_elapsed, call_chunk,
                   processed_response_ids, response_chunks, last_stream, speakVars>>

\* The synthesis of a chunk's call returned: the put, then the rest of
\* process_stream_chunk.
StreamSynthDone(c) == SynthDoneBody(c) /\ AfterQueueAudio(c)

\* The synthesis of a chunk's call raised.
StreamSynthFailed(c) == SynthFailedBody(c) /\ AfterQueueAudio(c)

\* handle_stream's wait_for(task, timeout=10.0) ran out while the chunk's
\* call was in its synthesis: wait_for cancels the task; CancelledError is
\* no Exception, so it leaves queue_audio and process_stream_chunk through
\* no except clause, and handle_stream answers from its TimeoutError clause.
StreamTimeout(c) ==
    /\ call_chunk[c].branch \in StreamBranches
    /\ call_pc[c] = "synth"
    /\ call_pc' = [call_pc EXCEPT ![c] = "done"]
    /\ call_result' = [call_result EXCEPT ![c] = "cancelled"]
    /\ UNCHANGED <<amVars, call_file, loop_pc, loop_item, histVars, chunkVars, opVars>>

\* The oldest _cleanup_response task wakes up: the chunks of its base id
\* are deleted if there are any.
cleanup_response ==
    /\ cleanup_tasks # <<>>
    /\ cleanup_tasks' = Tail(cleanup_tasks)
    /\ response_chunks' = IF Head(cleanup_tasks) \in DOMAIN response_chunks
                          THEN DictDel(response_chunks, Head(cleanup_tasks))
                          ELSE response_chunks
    /\ UNCHANGED <<amVars, coVars, histVars, opVars, oneshot_raw_texts, chunk_count,
                   last_chunk, idle_elapsed, call_chunk, processed_response_ids, last_stream,
                   speakVars>>

\* StreamingTTSHandler.reset_conversation: the handler's collections are
\* cleared, then clear_queue() runs (it never suspends).  The queue_audio
\* calls in progress are recorded in reset_call.
handler_reset ==
    /\ reset_call.pc = "idle"
    /\ processed_response_ids' = {}
    /\ response_chunks' = <<>>
    /\ ClearQueueBody
    /\ reset_call' = [pc |-> "done", process |-> current_process, calls |-> call_pc,
                      op |-> "handler_reset"]
    /\ UNCHANGED <<current_process, audio_complete, playback_lock, is_processing_queue,
                   queue_processor_task, coVars, played, finished, dup_accepted,
                   oneshot_raw_texts, chunk_count, last_chunk, idle_elapsed, call_chunk,
                   cleanup_tasks, last_stream, speakVars, stop_call>>
    /\ WaitWake

\* handle_stream, for a chunk flagged complete, once its
\* process_stream_chunk task is done: wait_for_audio_completion(), and the
\* answer when that returns.
HandleStreamWait(c) ==
    /\ call_chunk[c].branch = "stream_final"
    /\ call_pc[c] = "done"
    /\ call_result[c] # "cancelled"
    /\ WaitBeginFor(c, "audio_completion", FALSE)

\* The old server: /stream handlers, the syntheses they await, the queue
\* loop, the cleanup tasks and a /reset_conversation request.
NextHandler ==
    \/ \E c \in Calls, text \in HandlerTexts, is_complete \in BOOLEAN,
          response_id \in HandlerIds :
           process_stream_chunk(c, text, is_complete, response_id)
    \/ \E c \in Calls : StreamSynthDone(c) \/ StreamSynthFailed(c) \/ StreamTimeout(c)
    \/ \E l \in Calls : LoopStep(l)
    \/ cleanup_response
    \/ handler_reset
    \/ \E c \in Calls : HandleStreamWait(c)
    \/ WaitReturn

SpecHandler == Init /\ [][NextHandler]_vars

\* ============================================================= Part IV
\* speak_with_retry (src/scripts/claude_speak.py): a synchronous function,
\* called again only when the call before has returned.  Time passes
\* between and inside its steps.

MaxClock == 4
MaxSpeakCalls == 3
MaxRetries == 2

\* MESSAGE_DEDUP_WINDOW, in seconds.
MESSAGE_DEDUP_WINDOW == 2

\* Texts are sequences of words.
SpeakTexts == {<<"I've">>, <<"I", "have">>, <<"ok">>}

\* clean_text_for_speech on the words used here: "I've" becomes "I have"
\* (line 135); the other replacements find nothing in them.
RECURSIVE clean_text_for_speech(_)
clean_text_for_speech(words) ==
    IF words = <<>> THEN <<>>
    ELSE (IF Head(words) = "I've" THEN <<"I", "have">> ELSE <<Head(words)>>)
             \o clean_text_for_speech(Tail(words))

\* The entries of a cache that are younger than `age`.
Younger(cache, now, age) == [k \in {x \in DOMAIN cache : now - cache[x] < age} |-> cache[k]]

\* load_dedup_cache: the file's entries younger than twice the window.
load_dedup_cache(now) == Younger(dedup_cache, now, MESSAGE_DEDUP_WINDOW * 2)

\* Time passes.
Tick ==
    /\ clock < MaxClock
    /\ clock' = clock + 1
    /\ UNCHANGED <<amVars, coVars, histVars, opVars, oneshot_raw_texts, chunk_count,
                   last_chunk, idle_elapsed, call_chunk, handlerVars, dedup_cache,
                   recent_messages, speak, speak_count, spoken>>

\* C36's mutant: a window test that no entry passes.
InWindowNever(recorded, now) == FALSE

\* `current_time - v < MESSAGE_DEDUP_WINDOW`
InWindow(recorded, now) == now - recorded < MESSAGE_DEDUP_WINDOW

\* C35's mutant: a loop that returns after its first attempt.
MoreAttemptsNever(attempt, retries) == FALSE

\* `if attempt < retries`: the loop goes on to another attempt.
MoreAttempts(attempt, retries) == attempt < retries

\* speak_with_retry up to its first request: the text is cleaned and,
\* unless bypass_dedup, the cache is loaded and filtered; a text found in
\* it ends the call with True, otherwise the text is recorded with the
\* current time and the cache saved.  (The cache is keyed by the md5 digest
\* of the cleaned text, taken here as the cleaned text itself.)
SpeakBegin(text, bypass_dedup, retries) ==
    LET cleaned_text == clean_text_for_speech(text)
        loaded == load_dedup_cache(clock)
        recent == [k \in {x \in DOMAIN loaded : InWindow(loaded[x], clock)} |-> loaded[k]]
        call == [pc |-> "sending", text |-> text, bypass_dedup |-> bypass_dedup,
                 retries |-> retries, attempt |-> 0, requests |-> 0, failures |-> 0,
                 result |-> "none", duplicate |-> FALSE, began |-> clock]
    IN
    /\ speak.pc \in {"idle", "returned"}
    /\ speak_count < MaxSpeakCalls
    /\ speak_count' = speak_count + 1
    /\ IF bypass_dedup
       THEN /\ speak' = call
            /\ UNCHANGED <<dedup_cache, recent_messages>>
       ELSE IF cleaned_text \in DOMAIN recent
       THEN /\ speak' = [call EXCEPT !.pc = "returned", !.result = "true",
                                     !.duplicate = TRUE]
            /\ recent_messages' = recent
            /\ dedup_cache' = recent
       ELSE /\ speak' = call
            /\ recent_messages' = DictPut(recent, cleaned_text, clock)
            /\ dedup_cache' = recent_messages'
    /\ UNCHANGED <<amVars, coVars, histVars, opVars, oneshot_raw_texts, chunk_count,
                   last_chunk, idle_elapsed, call_chunk, handlerVars, clock, spoken>>

\* One pass of the retry loop: send_tts_request returns success or an
\* error.  On success the text is recorded again (unless bypass_dedup) and
\* the call returns True; on an error the loop goes on (after RETRY_DELAY)
\* or, after the last attempt, the call returns False.
SpeakAttempt(success) ==
    LET cleaned_text == clean_text_for_speech(speak.text) IN
    /\ speak.pc = "sending"
    /\ IF success
       THEN /\ speak' = [speak EXCEPT !.pc = "returned", !.result = "true",
                                      !.requests = @ + 1]
            /\ spoken' = DictPut(spoken, cleaned_text, clock)
            /\ IF speak.bypass_dedup
               THEN UNCHANGED <<dedup_cache, recent_messages>>
               ELSE /\ recent_messages' = DictPut(recent_messages, cleaned_text, clock)
                    /\ dedup_cache' = recent_messages'
       ELSE /\ speak' = IF MoreAttempts(speak.attempt, speak.retries)
                        THEN [speak EXCEPT !.attempt = @ + 1, !.requests = @ + 1,
                                           !.failures = @ + 1]
                        ELSE [speak EXCEPT !.pc = "returned", !.result = "false",
                                           !.requests = @ + 1, !.failures = @ + 1]
            /\ UNCHANGED <<dedup_cache, recent_messages, spoken>>
    /\ UNCHANGED <<amVars, coVars, histVars, opVars, oneshot_raw_texts, chunk_count,
                   last_chunk, idle_elapsed, call_chunk, handlerVars, clock, speak_count>>

NextSpeak ==
    \/ \E text \in SpeakTexts, bypass_dedup \in BOOLEAN, retries \in 0..MaxRetries :
           SpeakBegin(text, bypass_dedup, retries)
    \/ \E success \in BOOLEAN : SpeakAttempt(success)
    \/ Tick

SpecSpeak == Init /\ [][NextSpeak]_vars

\* ====================================================== Part I: claims
LoopsAt(pcs) == {l \in Calls : loop_pc[l] \in pcs}

\* C1: a queue_audio call whose identity is that of a task still queued,
\* held by a loop task or playing enqueues nothing.
C1_NoDuplicateAccepted == dup_accepted = {}

\* C2: at most one loop task is between the start of play_audio's playback
\* (is_playing set) and its cleanup, at most one playback subprocess is
\* alive, and the task being played is the one the state names.
C2_SinglePlayback ==
    /\ Cardinality(LoopsAt(PlayingPcs)) <= 1
    /\ Cardinality(LoopsAt({"wait"})) <= 1
    /\ \A l \in LoopsAt(PlayingPcs) :
          state.is_playing /\ state.current_audio_file = loop_item[l].audio_file

C2_Witness ==
    \E l1, l2 \in Calls : loop_pc[l1] = "wait" /\ loop_pc[l2] = "lockwait"

\* C3: playback starts in the order the queue_audio calls were made (calls
\* are numbered in that order), for calls with distinct identities.
C3_FifoPlayback ==
    \A i, j \in DOMAIN played :
        (i < j /\ call_file[played[i]] # call_file[played[j]]) => played[i] < played[j]

\* C6: at most one process_audio_queue task exists, counting a task that
\* was created and has not yet taken its first step.
C6_SingleLoop == Cardinality(LoopsAt(ActivePcs)) <= 1

\* C7: with no clear_queue and under fair scheduling, every task accepted
\* into the queue is eventually played, whatever failed before it.
C7_NoStall ==
    \A c \in Calls : (call_result[c] = "accepted") ~> (c \in RangeOf(played))

C7_Witness ==
    \E c, d \in Calls :
        /\ c < d
        /\ finished[c] = "spawn_failed"
        /\ call_result[d] = "accepted"
        /\ finished[d] = "exited"

\* C8: the step that ends a playback (subprocess exited, or spawn failed)
\* leaves is_playing false, current_audio_file and playback_start_time
\* cleared, the identity out of currently_queued_files and audio_complete set.
C8_CleanupAfterPlayback ==
    [][\A c \in Calls :
          (finished[c] = "no" /\ finished'[c] # "no") =>
              /\ ~state'.is_playing
              /\ state'.current_audio_file = None
              /\ ~state'.playback_start_time
              /\ call_file[c] \notin state'.currently_queued_files
              /\ audio_complete']_vars

C8_Witness ==
    /\ \E c \in Calls : finished[c] = "spawn_failed"
    /\ \E c \in Calls : finished[c] = "exited"
    /\ ~state.is_playing
    /\ audio_complete

\* C9: no task that was accepted and had not begun playing when clear_queue
\* ran begins playing afterwards.
C9_NoPlayAfterClear == \A c \in stale : c \notin RangeOf(played)

\* C10: clear_queue leaves the queue and currently_queued_files empty, a
\* second clear_queue in that state changes nothing, and no drained task is
\* ever played.
C10_ClearQueue ==
    /\ [](\A c \in drained : c \notin RangeOf(played) /\ finished[c] = "no")
    /\ [][clear_queue =>
            /\ audio_queue' = <<>>
            /\ state'.currently_queued_files = {}
            /\ (audio_queue = <<>> /\ state.currently_queued_files = {}
                    => UNCHANGED <<amVars, coVars>>)]_vars

C10_Witness ==
    /\ drained # {}
    /\ audio_queue = <<>>
    /\ state.currently_queued_files = {}
    /\ played # <<>>

\* ================================== Part I: claims on the control operations
\* C11: while stop_audio_queue is in progress the stop flag stays cleared
\* (so the loop's poll observes it), and when stop_audio_queue returns no
\* process_audio_queue task is active, whatever queue_audio calls were made
\* meanwhile.
C11_ShutdownTerminates ==
    /\ [](stop_call.pc = "waiting" => ~is_processing_queue)
    /\ [][(stop_call.pc # "done" /\ stop_call'.pc = "done")
             => LoopsAt(ActivePcs)' = {}]_vars

\* C12: is_playing is true exactly when current_process is a live playback
\* subprocess (spawned, not yet exited).
C12_PlayingIffProcess ==
    state.is_playing <=> (current_process # None /\ loop_pc[current_process] = "wait")

\* C13: in every state, is_playing is true exactly when current_audio_file
\* is set; play_audio, reset_audio_state and clear_queue never leave the two
\* fields out of step.
C13_PlayingIffFile ==
    state.is_playing <=> (state.current_audio_file # None)

\* C13's case: reset_audio_state has acted in the middle of a playback.
C13_Witness ==
    \E l \in Calls :
        /\ loop_pc[l] = "wait"
        /\ ~state.is_playing
        /\ state.current_audio_file = None

\* C14: at most one task is in flight: the queue_audio calls inside their
\* synthesis and the tasks being played number at most one.
C14_SingleInFlight ==
    Cardinality({c \in Calls : call_pc[c] = "synth"}) + Cardinality(LoopsAt(PlayingPcs)) <= 1

\* No queue_audio call was in progress when reset_conversation began, and
\* none was made or moved until it returned.
NoProducerDuringReset ==
    /\ reset_call.calls = call_pc
    /\ \A c \in Calls : call_pc[c] # "synth"

\* C19: when reset_conversation returns, with no producer running meanwhile,
\* the draft buffer, the audio queue and currently_queued_files are empty
\* and no playback subprocess is alive.
C19_ResetLeavesNothing ==
    [][(reset_call.pc # "done" /\ reset_call'.pc = "done" /\ NoProducerDuringReset')
          => /\ oneshot_raw_texts' = <<>>
             /\ audio_queue' = <<>>
             /\ state'.currently_queued_files = {}
             /\ \A l \in Calls : ~SubprocessAlive(l)']_vars

\* C20: a wait called with a timeout while a task is playing takes the
\* timeout: the call suspends or returns (with its result or with a timeout
\* indication) and never raises into its caller, and the playback goes on.
C20_WaitTakesTimeout ==
    [][(wait_call.pc = "idle" /\ wait_call'.pc # "idle" /\ wait_call'.timeout
            /\ LoopsAt(PlayingPcs) # {})
          => /\ wait_call'.pc \in {"waiting", "returned", "timed_out"}
             /\ LoopsAt(PlayingPcs)' = LoopsAt(PlayingPcs)]_vars

\* C21 as stated: wait_for_queue_empty returns only in a state where no
\* task is queued and no dequeued task is unfinished.
C21_ReturnsOnEmpty ==
    [][(wait_call'.kind = "queue_empty" /\ wait_call.pc # "returned"
            /\ wait_call'.pc = "returned")
          => audio_queue' = <<>> /\ PendingCalls' = {}]_vars

\* C21 amended: wait_for_queue_empty is released (returns at once, or is
\* woken from its suspension) only by a step that leaves no task queued and
\* no dequeued task unfinished.
C21_ReleasedOnEmpty ==
    [][(wait_call'.kind = "queue_empty" /\ wait_call.pc \in {"idle", "waiting"}
            /\ wait_call'.pc \in {"woken", "returned"})
          => audio_queue' = <<>> /\ PendingCalls' = {}]_vars

\* C21's case: a wait that was suspended has returned and a task accepted
\* meanwhile is queued.
C21_Witness ==
    /\ wait_call.kind = "queue_empty"
    /\ wait_call.pc = "returned"
    /\ played # <<>>
    /\ audio_queue # <<>>

\* C22: stop_current_audio leaves the audio queue and
\* currently_queued_files as they are, and once it has returned no playback
\* subprocess is alive: the one that was active has been terminated.
C22_StopTerminates ==
    [][(reset_call'.op = "stop_current_audio" /\ reset_call.pc # "done"
            /\ reset_call'.pc = "done")
          => /\ audio_queue' = audio_queue
             /\ state'.currently_queued_files = state.currently_queued_files
             /\ \A l \in Calls : ~SubprocessAlive(l)']_vars

\* C23: the step in which a synthesis ends in failure, or with empty audio,
\* adds nothing to the audio queue or to currently_queued_files and leaves
\* what is queued as it was.
C23_FailedSynthesisDropped ==
    [][\A c \in Calls :
          (call_pc[c] = "synth"
              /\ (call_result'[c] = "synth_failed" \/ call_pc'[c] = "done_empty"))
          => /\ audio_queue' = audio_queue
             /\ state'.currently_queued_files = state.currently_queued_files]_vars

\* ===================================================== Part II: claims
\* The length of a longest common contiguous block of a and b.
LongestCommonLen(a, b) ==
    LET lens == {k \in 0..Len(a) :
                    \E i \in 0..(Len(a) - k), j \in 0..(Len(b) - k) :
                        j + k <= Len(b) /\ SubSeq(a, i + 1, i + k) = SubSeq(b, j + 1, j + k)}
    IN  CHOOSE k \in lens : \A k2 \in lens : k2 <= k

\* d is s without its leading and trailing whitespace.
IsTrimOf(d, s) ==
    \E i \in 1..(Len(s) + 1), j \in 0..Len(s) :
        /\ d = SubSeq(s, i, j)
        /\ \A x \in 1..(i - 1) : s[x] \in Whitespace
        /\ \A x \in (j + 1)..Len(s) : s[x] \in Whitespace
        /\ d = <<>> \/ (d[1] \notin Whitespace /\ d[Len(d)] \notin Whitespace)

FinalWithDraft == last_chunk.had_draft /\ last_chunk.branch \in {"delta", "delta_empty", "full"}

\* C4: when the delta branch is taken, the matched region is a common block
\* of the lower-cased draft and final text, the delta is the final text after
\* the end of that region, trimmed; a non-empty delta is handed over cleaned
\* and nothing else is, an empty delta hands over nothing; and a final text
\* identical to a non-empty draft hands over nothing.
C4_DeltaOnly ==
    LET r == last_chunk
        rest == SliceFrom(r.text, r.match.b + r.match.size)
    IN  /\ r.branch \in {"delta", "delta_empty"} =>
              /\ SubSeq(lower(r.stored), r.match.a + 1, r.match.a + r.match.size)
                    = SubSeq(lower(r.text), r.match.b + 1, r.match.b + r.match.size)
              /\ \E d \in {SubSeq(rest, i, j) : i \in 1..(Len(rest) + 1), j \in 0..Len(rest)} :
                    /\ IsTrimOf(d, rest)
                    /\ (d = <<>>) <=> (r.branch = "delta_empty")
                    /\ r.handed = IF d = <<>> \/ clean_text_for_tts(d) = <<>>
                                  THEN <<>> ELSE <<clean_text_for_tts(d)>>
        /\ (FinalWithDraft /\ r.stored # <<>> /\ r.text = r.stored) => r.handed = <<>>

C4_Witness ==
    /\ last_chunk.branch = "delta"
    /\ last_chunk.match.b > 0
    /\ last_chunk.match.size >= 2
    /\ last_chunk.handed # <<>>
    /\ last_chunk.handed # <<clean_text_for_tts(last_chunk.text)>>

LastBase == get_base_response_id(last_chunk.rid)

\* What `cleaned` amounts to when handed over once.
Once(cleaned) == IF cleaned # <<>> THEN <<cleaned>> ELSE <<>>

\* C15: after a final chunk was processed, the draft buffer has no entry for
\* its base id, whichever branch was taken (delta handed over, delta empty,
\* match below the threshold, no draft stored).
C15_FinalRemovesDraft ==
    last_chunk.branch \in {"delta", "delta_empty", "full", "nodraft"}
        => LastBase \notin DOMAIN oneshot_raw_texts

\* C15's case: a final chunk that found a draft and whose delta was empty.
C15_Witness ==
    /\ last_chunk.branch = "delta_empty"
    /\ last_chunk.had_draft
    /\ last_chunk.stored # <<>>
    /\ LastBase \notin DOMAIN oneshot_raw_texts

\* C16: once the idle period has gone by with no chunk arriving, no draft
\* is left in the buffer.
C16_IdleDraftEvicted ==
    idle_elapsed => DOMAIN oneshot_raw_texts = {}

\* C17: a draft chunk stores its raw text under its base id, replacing the
\* draft that was there and touching no other entry, and hands the cleaned
\* text over once when it is not empty, and nothing otherwise.
C17_DraftStored ==
    [][(chunk_count' = chunk_count + 1 /\ last_chunk'.branch = "draft") =>
          /\ DOMAIN oneshot_raw_texts' = DOMAIN oneshot_raw_texts \cup {LastBase'}
          /\ oneshot_raw_texts'[LastBase'] = last_chunk'.text
          /\ \A k \in DOMAIN oneshot_raw_texts \ {LastBase'} :
                 oneshot_raw_texts'[k] = oneshot_raw_texts[k]
          /\ last_chunk'.handed = Once(clean_text_for_tts(last_chunk'.text))]_vars

\* C17's case: a draft that replaced an earlier, different draft and whose
\* cleaned text differs from the raw text.
C17_Witness ==
    /\ last_chunk.branch = "draft"
    /\ last_chunk.had_draft
    /\ last_chunk.stored # last_chunk.text
    /\ oneshot_raw_texts[LastBase] = last_chunk.text
    /\ Len(last_chunk.handed) = 1
    /\ last_chunk.handed[1] # last_chunk.text

\* C18 as stated: a final chunk with no stored draft hands over the whole
\* final text, cleaned, as exactly one task, and leaves the buffer as it was.
C18_WholeTextAlways ==
    [][(chunk_count' = chunk_count + 1 /\ last_chunk'.branch = "nodraft") =>
          /\ oneshot_raw_texts' = oneshot_raw_texts
          /\ last_chunk'.handed = <<clean_text_for_tts(last_chunk'.text)>>]_vars

\* C18 amended: a final chunk with no stored draft hands over the whole
\* final text, cleaned, as exactly one task when the cleaned text is not
\* empty, and nothing when it is; the buffer is left as it was.
C18_WholeTextUnlessEmpty ==
    [][(chunk_count' = chunk_count + 1 /\ last_chunk'.branch = "nodraft") =>
          /\ oneshot_raw_texts' = oneshot_raw_texts
          /\ last_chunk'.handed = Once(clean_text_for_tts(last_chunk'.text))]_vars

\* C18's case: a final chunk with no draft for its id while the buffer
\* holds the draft of another response, and whose cleaned text is empty.
C18_Witness ==
    /\ last_chunk.branch = "nodraft"
    /\ DOMAIN oneshot_raw_texts # {}
    /\ last_chunk.text # <<>>
    /\ last_chunk.handed = <<>>

\* The id without its last part: the base an id was built from.
BaseOf(rid) == SubSeq(rid, 1, Len(rid) - 1)

\* C24: the base id computed for base + '-' + suffix is base, so a final
\* chunk never misses the draft stored for the same base.
C24_BaseIdRecovered ==
    last_chunk.rid # <<>> =>
        /\ LastBase = BaseOf(last_chunk.rid)
        /\ last_chunk.branch = "nodraft" =>
               \A key \in DOMAIN oneshot_raw_texts :
                   key # BaseOf(last_chunk.rid) \o <<"oneshot">>

\* t holds a "(" and a ")" with nothing but whitespace between them.
HasEmptyParens(t) ==
    \E i, j \in DOMAIN t :
        /\ i < j
        /\ t[i] = "(" /\ t[j] = ")"
        /\ \A k \in (i + 1)..(j - 1) : t[k] \in Whitespace

\* C25: a text handed to the audio manager has no line break, no two
\* whitespace characters in a row, no empty pair of parentheses and no
\* whitespace at either end.
C25_HandedIsClean ==
    \A n \in DOMAIN last_chunk.handed :
        LET t == last_chunk.handed[n] IN
        /\ \A i \in DOMAIN t : t[i] # "\n"
        /\ \A i \in 1..(Len(t) - 1) : ~(t[i] \in Whitespace /\ t[i + 1] \in Whitespace)
        /\ ~HasEmptyParens(t)
        /\ t # <<>> => (t[1] \notin Whitespace /\ t[Len(t)] \notin Whitespace)

\* C26: the matched region process_chunk works with is as long as the
\* longest common contiguous block of the lower-cased draft and the
\* lower-cased final text, whatever the length of the texts.
C26_MatchIsLongest ==
    FinalWithDraft =>
        last_chunk.match.size
            = LongestCommonLen(lower(last_chunk.stored), lower(last_chunk.text))

\* C27: every write to the playback state is made with state_lock held; no
\* operation changes or replaces the state without holding it.
C27_WritesHoldLock == ~unlocked_write

\* C28: a playback that begins with the metadata unreadable has the fixed
\* fallback as its expected_duration and goes on to spawn the subprocess:
\* the task is marked as playing and is not finished by that step.
C28_FallbackStillSpawns ==
    [][(played' # played /\ state'.expected_duration = "fallback") =>
          \E l \in Calls :
              /\ loop_pc[l] \in {"get", "lockwait"}
              /\ loop_pc'[l] = "spawn"
              /\ loop_item'[l].call = played'[Len(played')]
              /\ state'.is_playing
              /\ state'.current_audio_file = loop_item'[l].audio_file
              /\ finished'[loop_item'[l].call] = "no"]_vars

\* C28's case: the subprocess of a playback with the fallback duration runs.
C28_Witness ==
    \E l \in Calls :
        /\ loop_pc[l] = "wait"
        /\ current_process = l
        /\ state.expected_duration = "fallback"
        /\ state.current_audio_file = loop_item[l].audio_file

\* C29: the draft's task enters the audio queue before the delta's task of
\* the same response: when the delta's queue_audio call has put its task,
\* the draft's call, made first, is no longer inside its synthesis.
C29_DraftQueuedFirst ==
    \A c1, c2 \in Calls :
        (/\ c1 < c2
         /\ call_chunk[c1].branch = "draft"
         /\ call_chunk[c2].branch = "delta"
         /\ call_chunk[c1].base = call_chunk[c2].base
         /\ call_result[c2] = "accepted")
            => call_pc[c1] # "synth"

\* C30: once reset_conversation has returned, no task of a process_chunk
\* call that began before the reset is in the queue or was played: a call
\* that was inside its synthesis when the reset ran has put no task.
C30_NoStaleAfterReset ==
    (reset_call.op = "reset_conversation" /\ reset_call.pc = "done") =>
        \A c \in Calls :
            (reset_call.calls[c] = "synth" /\ call_chunk[c] # NoChunk)
                => call_result[c] # "accepted"

\* The identities of the tasks in the audio queue and of the tasks a loop
\* has dequeued and not yet finished.
LiveFiles ==
    {audio_queue[i].audio_file : i \in DOMAIN audio_queue}
        \cup {loop_item[l].audio_file : l \in {k \in Calls : loop_item[k] # NoItem}}

\* C31: currently_queued_files is exactly the set of identities of the
\* tasks that are queued or dequeued and not yet finished.
C31_QueuedFilesExact == state.currently_queued_files = LiveFiles

\* ==================================================== Part III: claims
\* C32: when the /stream handler of a final chunk has answered after its
\* wait returned, the task the chunk put in the queue has started playing:
\* the handler never answers while the task waits to be played.
C32_AnswerAfterPlayback ==
    \A c \in Calls :
        (wait_call.call = c /\ wait_call.pc = "returned" /\ call_result[c] = "accepted")
            => c \in RangeOf(played)

\* The queue_audio calls that process_stream_chunk made for a response id.
CallsFor(response_id) ==
    {c \in Calls : call_chunk[c].branch \in StreamBranches /\ call_chunk[c].base = response_id}

\* C33: a chunk whose response id is in processed_response_ids is skipped:
\* it starts no queue_audio call, queues nothing and leaves response_chunks
\* as it was, also while the first chunk's call is still in progress; and
\* two calls are made for one response id only with a reset between them.
C33_QueuedOnce ==
    /\ [][(chunk_count' = chunk_count + 1
             /\ last_stream'.response_id \in processed_response_ids)
           => /\ call_pc' = call_pc
              /\ call_chunk' = call_chunk
              /\ audio_queue' = audio_queue
              /\ response_chunks' = response_chunks
              /\ processed_response_ids' = processed_response_ids]_vars
    /\ [](\A c1, c2 \in Calls :
            (c1 < c2 /\ call_chunk[c1].branch \in StreamBranches
                /\ c2 \in CallsFor(call_chunk[c1].base))
                => /\ reset_call.pc = "done"
                   /\ reset_call.calls[c1] # "idle"
                   /\ reset_call.calls[c2] = "idle")

\* C33's case: a chunk was skipped as a duplicate while the call of the
\* first chunk with its id was still inside its synthesis.
C33_Witness ==
    /\ last_stream.skipped
    /\ \E c \in CallsFor(last_stream.response_id) : call_pc[c] = "synth"
    /\ \A c \in Calls : call_pc[c] # "idle" => c \in CallsFor(last_stream.response_id)

\* C34: when the synthesis of a chunk's call fails, the chunk's response id
\* is no longer in processed_response_ids, so that the same id is taken
\* again when it is sent again.
C34_FailureForgetsId ==
    [][\A c \in Calls :
          (call_chunk[c].branch \in StreamBranches
              /\ call_result[c] = "none" /\ call_result'[c] = "synth_failed")
              => call_chunk[c].base \notin processed_response_ids']_vars

\* ====================================================== Part IV: claims

\* C35: a speak_with_retry call sends at most retries + 1 requests; no
\* request follows a successful one, and the call returns True with it;
\* the call returns False only when retries + 1 requests have all failed.
C35_RetryBound ==
    /\ speak.requests <= speak.retries + 1
    /\ speak.failures <= speak.requests
    /\ speak.pc = "sending" => speak.requests = speak.failures
    /\ (speak.pc = "returned" /\ speak.requests > speak.failures) =>
           speak.result = "true" /\ speak.requests = speak.failures + 1
    /\ speak.result = "false" =>
           speak.pc = "returned" /\ speak.failures = speak.retries + 1
                                 /\ speak.requests = speak.failures

\* A call that succeeded on its second attempt of three.
C35_Witness ==
    speak.pc = "returned" /\ speak.result = "true" /\ speak.retries = 2
                          /\ speak.requests = 2 /\ speak.failures = 1

\* The texts the cache file holds with a time inside the window.
RecordedNow == {t \in DOMAIN dedup_cache : clock - dedup_cache[t] < MESSAGE_DEDUP_WINDOW}

\* C36: a call without bypass_dedup whose cleaned text the cache holds
\* with a time less than MESSAGE_DEDUP_WINDOW ago returns True at once and
\* sends no request; a call with bypass_dedup goes on to its requests
\* whatever the cache holds, never changes the cache, and has sent a request
\* when it returns.
C36_DedupWindow ==
    /\ [][speak_count' = speak_count + 1 =>
             /\ (~speak'.bypass_dedup /\ clean_text_for_speech(speak'.text) \in RecordedNow) =>
                    speak'.pc = "returned" /\ speak'.result = "true"
                                           /\ speak'.requests = 0
             /\ speak'.bypass_dedup => speak'.pc = "sending"]_vars
    /\ [][(speak'.bypass_dedup /\ speak' # speak) =>
             dedup_cache' = dedup_cache /\ recent_messages' = recent_messages]_vars
    /\ [](speak.duplicate => speak.requests = 0 /\ speak.result = "true")
    /\ []((speak.bypass_dedup /\ speak.pc = "returned") => speak.requests >= 1)

\* A call suppressed as a duplicate of a text spoken as different words.
C36_Witness ==
    /\ speak.duplicate /\ speak.pc = "returned" /\ speak.text = <<"I've">>
    /\ <<"I", "have">> \in DOMAIN spoken
    /\ speak_count = 2

\* C37: a call is suppressed as a duplicate only when its cleaned text was
\* spoken, by a successful request, less than MESSAGE_DEDUP_WINDOW before
\* the call.
C37_DuplicateWasSpoken ==
    speak.duplicate =>
        LET cleaned_text == clean_text_for_speech(speak.text) IN
        /\ cleaned_text \in DOMAIN spoken
        /\ speak.began - spoken[cleaned_text] < MESSAGE_DEDUP_WINDOW

\* ====================================================== Part II: claims, continued

\* The characters of a text that are not whitespace.
NonBlank(text) == SelectSeq(text, LAMBDA ch : ch \notin Whitespace)

\* What a call handed over, as one text.
HandedText(chunk) == IF chunk.handed = <<>> THEN <<>> ELSE chunk.handed[1]

\* C38: when the delta branch is taken, what is handed over holds every
\* character of the final text outside the matched region, those before
\* the region and those after it.
C38_NothingLostOutsideMatch ==
    last_chunk.branch \in {"delta", "delta_empty"} =>
        LET before == SubSeq(last_chunk.text, 1, last_chunk.match.b)
            after == SliceFrom(last_chunk.text, last_chunk.match.b + last_chunk.match.size)
        IN lower(NonBlank(HandedText(last_chunk))) = lower(NonBlank(before) \o NonBlank(after))

\* C39: a process_chunk call with is_complete false and an id without the
\* draft tag hands nothing over and leaves the draft buffer as it was.
C39_OtherChunkIgnored ==
    [][(chunk_count' = chunk_count + 1 /\ ~last_chunk'.is_complete
           /\ \A i \in DOMAIN last_chunk'.rid : last_chunk'.rid[i] # "oneshot") =>
          /\ last_chunk'.handed = <<>>
          /\ oneshot_raw_texts' = oneshot_raw_texts]_vars

\* C39's case: such a chunk, for the response whose draft the buffer holds.
C39_Witness ==
    /\ chunk_count = 2
    /\ ~last_chunk.is_complete
    /\ last_chunk.rid = RidComplete
    /\ get_base_response_id(RidComplete) \in DOMAIN oneshot_raw_texts
    /\ oneshot_raw_texts[get_base_response_id(RidComplete)] # <<>>

====
